---- MODULE Spec2Model ----
(***************************************************************************)
(* Model of the Xeo Wallet notification bot (src/main.py, src/wsgi.py):    *)
(* the deposit-session tracker fed by the Gmail watcher, the approve and   *)
(* decline callbacks with their backend writes, the connect-code handshake, *)
(* the HTTP endpoints, the start of the bot threads and the game-round     *)
(* loop.                                                                   *)
(*                                                                         *)
(* Time is the wall clock in seconds; it advances in steps of TickSeconds. *)
(* Amounts are in paise (1/100 rupee), so the code's 0.5 rupee tolerance   *)
(* is 50.  Payload that steers no branch (xid, sender_name, message text)  *)
(* is left out of the records.                                             *)
(***************************************************************************)
EXTENDS Integers, Sequences, FiniteSets, TLC

\* ------------------------------------------------------------------ bounds
TickSeconds == 150
MaxTicksDeposit == 3
MaxEmailsDeposit == 2
MaxTicksConnect == 5
MaxCodes == 2
MaxNotify == 4
MaxCredits == 2
MaxAdmin == 2
MaxRounds == 3

\* ------------------------------------------------------- program constants
SESSION_TTL == 300
SINCE_MINUTES == 6
TOLERANCE == 50
DAY == 86400
READY_WAIT_WATCHER == 60
CONNECT_TTL == 600
READY_WAIT_GAME == 60

RequestIds == {"r1", "r2"}
Users == {"u1"}
WebUsers == {"u1", "u2"}
TelegramUsers == {101, 102}
NoTelegram == 0
SessionAmounts == {1000, 1050}
NoAmount == -1
EmailAmounts == {NoAmount, 0, 1000, 1049}
\* an amount float() cannot parse: a subject "Rs. 1.2.3", a JSON "amount": "ten"
BadAmount == -2
\* threads that may run run_telegram_bot: the one main.py starts, the one
\* wsgi.py starts
BotThreads == {1, 2}
\* no coroutine was handed to run_coroutine_threadsafe
NoSubmit == -1
\* the bot thread is not inside handle_approve
NoApproval == [query |-> "", rid |-> "", user_id |-> "", telegram_id |-> 0, total |-> 0,
               current_balance |-> 0]

\* The process starts one tick before midnight, so that the date the IMAP
\* search is given changes while sessions are live.
StartTime == DAY - TickSeconds

VARIABLES
    now,            \* time.time()
    wsgi,           \* src/wsgi.py has been imported (the process runs under Gunicorn)
    botpc,          \* per bot thread, where run_bot_async is
    app,            \* _state["app"]: 0 for None, else the bot thread that built it
    loop,           \* _state["loop"]: 0 for None, else the bot thread whose loop it is
    approving,      \* per bot thread, the approval it is in the middle of (see approve_read)
    ready,          \* _state["ready"]
    gpc,            \* where the game-round thread is
    current_round_id, \* _round_state["current_round_id"]: 0 for None, else a round id
    resolved,       \* history: the round id last given to resolve_round (0: none yet)
    sessions,       \* _deposit_sessions, in insertion order
    inbox,          \* unread mail from FAMAPP_SENDER in the Gmail inbox, oldest first
    arrivals,       \* number of payment mails received so far
    pc,             \* where the email watcher thread is
    fetched,        \* the watcher's local list `emails` still to be processed
    cycleAt,        \* the clock when the current polling cycle fetched its mail
    buttons,        \* per request id, admin-group messages that still carry the buttons
    everMatched,    \* history: request ids under which a session was marked matched
    pending,        \* _pending_connects: connect code -> pending link request
    issued,         \* number of connect codes generated so far
    telegram_of,    \* backend: profiles.telegram_id per website user
    used,           \* history: connect codes a /start has accepted
    threads,        \* notification threads started by /notify_transaction, not yet run
    notified,       \* number of transaction alerts delivered to Telegram
    admin_threads,  \* number of threads started by /admin, not yet run
    balance,        \* backend: profiles.balance per website user, in paise
    decided,        \* history: statuses the backend received per add_fund_requests id
    credits,        \* history: number of balance updates the backend accepted
    writes,         \* backend writes accepted from the step just taken
    notice,         \* deposit decisions the step just taken delivered to users' chats
    submit,         \* loop reference the step just taken gave run_coroutine_threadsafe
    outcome,        \* how the step just taken ended / what it logged ("none": nothing)
    resp            \* HTTP status the step just taken returned (0: not an HTTP request)

depositVars == <<sessions, inbox, arrivals, pc, fetched, cycleAt, buttons, everMatched>>
connectVars == <<pending, issued, telegram_of, used>>
notifyVars == <<threads, notified, admin_threads>>
bootVars == <<wsgi, botpc, app, loop, approving>>
gameVars == <<gpc, current_round_id, resolved>>
backendVars == <<balance, decided, credits>>

vars == <<now, ready, depositVars, connectVars, notifyVars, bootVars, gameVars,
          backendVars, writes, notice, submit, outcome, resp>>

\* what a step leaves behind when it writes nothing to the backend, tells no
\* user of a decision and submits nothing to the bot loop
Quiet == writes' = {} /\ notice' = {} /\ submit' = NoSubmit

\* ---------------------------------------------------- dict (insertion order)
Keys(d) == {d[i].rid : i \in 1..Len(d)}

IndexOf(d, k) == CHOOSE i \in 1..Len(d) : d[i].rid = k

DictGet(d, k) == d[IndexOf(d, k)]

\* d[k] = v: an existing key keeps its place, a new key goes last
DictSet(d, v) ==
    IF v.rid \in Keys(d) THEN [d EXCEPT ![IndexOf(d, v.rid)] = v] ELSE Append(d, v)

DictPop(d, k) == SelectSeq(d, LAMBDA s : s.rid # k)

Abs(x) == IF x < 0 THEN -x ELSE x

Min(S) == CHOOSE x \in S : \A y \in S : x <= y

\* ------------------------------------------------------------------- clock
Tick(maxTicks) ==
    /\ now + TickSeconds <= StartTime + maxTicks * TickSeconds
    /\ now' = now + TickSeconds
    /\ outcome' = "none" /\ resp' = 0
    /\ Quiet
    /\ UNCHANGED <<ready, depositVars, connectVars, notifyVars, bootVars, gameVars,
                   backendVars>>

\* ------------------------------------------------------------ bot threads
\* wsgi.py: `from main import app, run_telegram_bot` has run main.py's module
\* level (the state Init describes); start_bot() then starts a bot thread
start_bot ==
    /\ ~wsgi
    /\ wsgi' = TRUE
    /\ botpc' = [botpc EXCEPT ![2] = "app"]
    /\ outcome' = "none" /\ resp' = 0
    /\ Quiet
    /\ UNCHANGED <<now, app, loop, approving, ready, depositVars, connectVars, notifyVars,
                   gameVars, backendVars>>

\* `_state["app"] = telegram_app`
PublishApp(b) ==
    /\ botpc[b] = "app"
    /\ app' = b
    /\ botpc' = [botpc EXCEPT ![b] = "loop"]
    /\ UNCHANGED <<loop, ready>>

\* the loop reference is left as it was
PublishedLoop_unset(l, b) == l

\* `_state["loop"] = asyncio.get_running_loop()`
PublishedLoop(l, b) == b

PublishLoop(b) ==
    /\ botpc[b] = "loop"
    /\ loop' = PublishedLoop(loop, b)
    /\ botpc' = [botpc EXCEPT ![b] = "ready"]
    /\ UNCHANGED <<app, ready>>

\* `_state["ready"].set()`; the thread then polls for updates
SetReady(b) ==
    /\ botpc[b] = "ready"
    /\ ready' = TRUE
    /\ botpc' = [botpc EXCEPT ![b] = "polling"]
    /\ UNCHANGED <<app, loop>>

\* run_bot_async in bot thread b publishes app, then loop, then sets the
\* readiness flag: three writes other threads can observe one by one
run_bot_async ==
    /\ \E b \in BotThreads : PublishApp(b) \/ PublishLoop(b) \/ SetReady(b)
    /\ outcome' = "none" /\ resp' = 0
    /\ Quiet
    /\ UNCHANGED <<now, wsgi, approving, depositVars, connectVars, notifyVars, gameVars,
                   backendVars>>

\* the handler goes on without waiting for the flag
wait_for_bot_skipped == TRUE

\* `_state["ready"].wait(timeout=30)`: whether the flag is set when the wait ends
wait_for_bot == ready

\* a key whose value is falsy counts as missing
Missing_falsy(data, required) ==
    {f \in required : f \notin DOMAIN data \/ data[f] = 0}

\* `missing = [f for f in required if f not in data]`
Missing(data, required) == {f \in required : f \notin DOMAIN data}

\* ------------------------------------------------ POST /start_deposit_session
DepositRequired == {"request_id", "user_id", "xid", "amount"}

\* JSON bodies: every subset of the required keys (the empty one included)
DepositBodies(rids, amounts) ==
    { [k \in K |-> CASE k = "request_id" -> r
                     [] k = "user_id" -> u
                     [] k = "xid" -> "x"
                     [] k = "amount" -> a] :
        K \in SUBSET DepositRequired, r \in rids, u \in Users, a \in amounts }

\* the bodies, and each of them with a telegram_id
WithTelegram(bodies, chats) ==
    bodies \cup { [k \in DOMAIN data \cup {"telegram_id"} |->
                     IF k = "telegram_id" THEN c ELSE data[k]] :
                  data \in bodies, c \in chats }

\* the session expires the moment it is stored
NewSession_expired(data, t) ==
    [rid |-> data["request_id"], user_id |-> data["user_id"], amount |-> data["amount"],
     telegram_id |-> IF "telegram_id" \in DOMAIN data THEN data["telegram_id"]
                                                      ELSE NoTelegram,
     expires_at |-> t, matched |-> FALSE, sent |-> FALSE, credited |-> FALSE, shown |-> 0]

NewSession(data, t) ==
    [rid |-> data["request_id"], user_id |-> data["user_id"], amount |-> data["amount"],
     \* `data.get("telegram_id")`
     telegram_id |-> IF "telegram_id" \in DOMAIN data THEN data["telegram_id"]
                                                      ELSE NoTelegram,
     expires_at |-> t + SESSION_TTL, matched |-> FALSE,
     \* history of this record, not read by the program: the approval request
     \* for it reached the admin group; the backend accepted a balance update
     \* made for it
     sent |-> FALSE, credited |-> FALSE,
     \* the 'Total to credit' of the approval request last delivered for it
     \* (0: none delivered)
     shown |-> 0]

start_deposit_session(data) ==
    /\ IF ~wait_for_bot
         THEN resp' = 503 /\ UNCHANGED sessions
       ELSE IF DOMAIN data = {}
         THEN resp' = 400 /\ UNCHANGED sessions
       ELSE IF Missing(data, DepositRequired) # {}
         THEN resp' = 400 /\ UNCHANGED sessions
       ELSE IF data["amount"] = BadAmount
         \* float(data["amount"]) raises while the dict literal is built
         THEN resp' = 500 /\ UNCHANGED sessions
       ELSE /\ sessions' = DictSet(sessions, NewSession(data, now))
            /\ resp' = 200
    /\ outcome' = "none"
    /\ UNCHANGED <<now, ready, inbox, arrivals, pc, fetched, cycleAt, buttons, everMatched, connectVars, notifyVars,
                   bootVars, gameVars, backendVars>>
    /\ Quiet

\* --------------------------------------------------------------- the mailbox
\* a payment mail from FAMAPP_SENDER arrives; amount is what parse_payment_email
\* will read from its subject (NoAmount: no amount in the subject)
EmailArrives(amounts, maxEmails) ==
    /\ arrivals < maxEmails
    /\ \E a \in amounts :
         inbox' = Append(inbox, [amount |-> a, arrived |-> now])
    /\ arrivals' = arrivals + 1
    /\ outcome' = "none" /\ resp' = 0
    /\ UNCHANGED <<now, ready, sessions, pc, fetched, cycleAt, buttons, everMatched, connectVars, notifyVars,
                   bootVars, gameVars, backendVars>>
    /\ Quiet

Date(t) == t \div DAY

\* the date given to IMAP SINCE: strftime("%d-%b-%Y") of now - since_minutes
SinceDate(t, since_minutes) == Date(t - since_minutes * 60)

\* positions of the mails the search (FROM sender SINCE date UNSEEN) returns
SearchHits(box, t, since_minutes) ==
    {i \in 1..Len(box) : Date(box[i].arrived) >= SinceDate(t, since_minutes)}

Pick(box, I) == LET F[i \in 0..Len(box)] ==
                        IF i = 0 THEN <<>>
                        ELSE IF i \in I THEN Append(F[i - 1], box[i]) ELSE F[i - 1]
                IN F[Len(box)]

\* ------------------------------------------------------------ email watcher
\* the watcher starts once the bot is ready or after its 60 s wait
WatcherStart ==
    /\ pc = "wait"
    /\ ready \/ now - StartTime >= READY_WAIT_WATCHER
    /\ pc' = "idle"
    /\ outcome' = "none" /\ resp' = 0
    /\ UNCHANGED <<now, ready, sessions, inbox, arrivals, fetched, cycleAt, buttons, everMatched, connectVars, notifyVars,
                   bootVars, gameVars, backendVars>>
    /\ Quiet

\* the comparison turned round: sessions not yet expired are swept
Expired_inverted(d, t) ==
    {d[i].rid : i \in {j \in 1..Len(d) : t < d[j].expires_at /\ ~d[j].matched}}

\* keys the sweep removes
Expired(d, t) == {d[i].rid : i \in {j \in 1..Len(d) : t > d[j].expires_at /\ ~d[j].matched}}

Sweep(d, t) == SelectSeq(d, LAMBDA s : s.rid \notin Expired(d, t))

\* One pass of the loop body up to the end of the IMAP fetch: sweep, then, if
\* sessions remain, fetch_recent_famapp_emails(since_minutes=6).  Fetching a
\* message marks it read.  A fetch that fails returns [] after having read
\* the first k messages.
\* `imap`: what the IMAP session may come to (TRUE: it succeeds).
email_watcher_pass(imap) ==
    /\ pc = "idle"
    /\ LET kept == Sweep(sessions, now)
           hits == SearchHits(inbox, now, SINCE_MINUTES)
       IN /\ sessions' = kept
          /\ outcome' = IF Expired(sessions, now) # {} THEN "expired" ELSE "none"
          /\ IF kept = <<>>
               THEN pc' = "sleep" /\ UNCHANGED <<inbox, fetched, cycleAt>>
             ELSE \E fetch_ok \in imap :
                    IF fetch_ok
                      THEN /\ inbox' = Pick(inbox, (1..Len(inbox)) \ hits)
                           /\ fetched' = Pick(inbox, hits)
                           /\ cycleAt' = now
                           /\ pc' = IF hits = {} THEN "sleep" ELSE "match"
                    ELSE \E k \in 0..Cardinality(hits) :
                           LET read == {i \in hits : Cardinality({j \in hits : j <= i}) <= k}
                           IN /\ inbox' = Pick(inbox, (1..Len(inbox)) \ read)
                              /\ pc' = "sleep"
                              /\ UNCHANGED <<fetched, cycleAt>>
    /\ resp' = 0
    /\ UNCHANGED <<now, ready, arrivals, buttons, everMatched, connectVars, notifyVars,
                   bootVars, gameVars, backendVars>>
    /\ Quiet

\* the loop body with an IMAP server that may fail
WatcherIterate == email_watcher_pass(BOOLEAN)

\* the bound included
WithinTolerance_inclusive(session_amount, amount) ==
    Abs(session_amount - amount) <= TOLERANCE

\* `abs(float(session["amount"]) - amount) < 0.5`
WithinTolerance(session_amount, amount) == Abs(session_amount - amount) < TOLERANCE

\* sessions the inner loop may pick for an email of this amount
Candidates(d, amount) ==
    {i \in 1..Len(d) : ~d[i].matched /\ WithinTolerance(d[i].amount, amount)}

\* the inner loop stops at the first candidate in map order (0: none)
MatchIndex(d, amount) ==
    IF Candidates(d, amount) = {} THEN 0 ELSE Min(Candidates(d, amount))

\* `if not amount: continue`
Skipped(amount) == amount = NoAmount \/ amount = 0

\* the bonus cut down to whole paise
Bonus_truncated(amount) == {amount \div 100}

\* `round(amount * 0.01, 2)`: 1% of the amount to the nearest paisa; on a tie
\* the binary representation of the float decides which neighbour
Bonus(amount) ==
    IF 2 * (amount % 100) < 100 THEN {amount \div 100}
    ELSE IF 2 * (amount % 100) > 100 THEN {amount \div 100 + 1}
    ELSE {amount \div 100, amount \div 100 + 1}

\* send_admin_approval_request: `total = amount + bonus`, where amount is the
\* amount parsed from the email
ShownTotal(amount, bonus) == amount + bonus

\* the watcher thread ends
AfterWatcherError_dead == "dead"

\* `except Exception` of the loop body logs; the thread goes on to time.sleep(30)
AfterWatcherError == "sleep"

\* One iteration of the `for email_data in emails` loop of
\* check_emails_for_sessions, the send of the approval request included.
\* An exception leaves check_emails_for_sessions (the rest of `emails` is
\* lost) and is caught by the loop body's guard: float() of a malformed
\* amount in parse_payment_email, or run_coroutine_threadsafe given None.
WatcherMatch ==
    /\ pc = "match"
    /\ LET e == Head(fetched)
           i == IF Skipped(e.amount) THEN 0 ELSE MatchIndex(sessions, e.amount)
       IN IF e.amount = BadAmount
            THEN /\ outcome' = "watcher_error" /\ submit' = NoSubmit
                 /\ fetched' = <<>> /\ pc' = AfterWatcherError
                 /\ UNCHANGED <<sessions, buttons, everMatched>>
          ELSE IF i = 0
            THEN /\ outcome' = "none" /\ submit' = NoSubmit
                 /\ fetched' = Tail(fetched)
                 /\ pc' = IF Tail(fetched) = <<>> THEN "sleep" ELSE "match"
                 /\ UNCHANGED <<sessions, buttons, everMatched>>
          ELSE IF loop = 0
            THEN /\ sessions' = [sessions EXCEPT ![i].matched = TRUE]
                 /\ everMatched' = everMatched \cup {sessions[i].rid}
                 /\ outcome' = "watcher_error" /\ submit' = loop
                 /\ fetched' = <<>> /\ pc' = AfterWatcherError
                 /\ UNCHANGED buttons
          ELSE \E delivered \in BOOLEAN, bonus \in Bonus(e.amount) :
                 /\ sessions' = [sessions EXCEPT ![i] =
                        [@ EXCEPT !.matched = TRUE, !.sent = delivered,
                                  !.shown = IF delivered
                                              THEN ShownTotal(e.amount, bonus)
                                              ELSE @]]
                 /\ everMatched' = everMatched \cup {sessions[i].rid}
                 /\ buttons' = IF delivered
                                 THEN [buttons EXCEPT ![sessions[i].rid] = @ + 1]
                                 ELSE buttons
                 /\ outcome' = IF delivered THEN "matched" ELSE "send_failed"
                 /\ submit' = loop
                 /\ fetched' = Tail(fetched)
                 /\ pc' = IF Tail(fetched) = <<>> THEN "sleep" ELSE "match"
    /\ resp' = 0
    /\ writes' = {}
    /\ notice' = {}
    /\ UNCHANGED <<now, ready, inbox, arrivals, cycleAt, connectVars, notifyVars,
                   bootVars, gameVars, backendVars>>

\* time.sleep(30) at the end of the loop body is over
WatcherSleep ==
    /\ pc = "sleep"
    /\ pc' = "idle"
    /\ outcome' = "none" /\ resp' = 0
    /\ UNCHANGED <<now, ready, sessions, inbox, arrivals, fetched, cycleAt, buttons,
                   everMatched, connectVars, notifyVars,
                   bootVars, gameVars, backendVars>>
    /\ Quiet

\* -------------------------------------------------- approve / decline buttons
\* Request ids as the frontend may send them.  A name stands for a JSON value:
\* "n7" for the number 7, every other name for a string; Text gives the
\* characters of str(request_id), with "approve_" and "decline_" as single
\* symbols.
AllIds == RequestIds \cup {"n7", "s7", "approve_r1"}

JsonNumbers == {"n7"}

Text(id) ==
    CASE id = "r1" -> <<"r", "1">>
      [] id = "r2" -> <<"r", "2">>
      [] id = "n7" -> <<"7">>
      [] id = "s7" -> <<"7">>
      [] id = "approve_r1" -> <<"approve_", "r", "1">>

\* no session can be stored under this key
NoKey == ""

\* `callback_data=f"approve_{request_id}"`, `f"decline_{request_id}"`
CallbackData(kind, id) == <<IF kind = "approve" THEN "approve_" ELSE "decline_">> \o Text(id)

\* `data.startswith(prefix)`
StartsWith(data, prefix) == Len(data) > 0 /\ data[1] = prefix

\* `data.replace(prefix, "")`: every occurrence is removed
Replace(data, prefix) == SelectSeq(data, LAMBDA c : c # prefix)

\* the key of _deposit_sessions a str with these characters is equal to: a
\* str is never equal to a number
KeyOf(text) ==
    IF \E id \in AllIds \ JsonNumbers : Text(id) = text
      THEN CHOOSE id \in AllIds \ JsonNumbers : Text(id) = text
      ELSE NoKey

\* a request the backend accepted
BalanceWrite(u, v) == [table |-> "profiles", key |-> u, amount |-> v, status |-> ""]

StatusWrite(r, st) == [table |-> "add_fund_requests", key |-> r, amount |-> 0, status |-> st]

TransactionWrite(u, v) == [table |-> "transactions", key |-> u, amount |-> v, status |-> "completed"]

\* query.edit_message_text replaces the message and drops its buttons
Edited(query) == [buttons EXCEPT ![query] = @ - 1]

\* the unknown request is marked declined
NotFoundWrites_declined(request_id) == {StatusWrite(request_id, "declined")}

\* the backend is not called before the early return
NotFoundWrites(request_id) == {}

\* `if not session: edit_message_text(...); return`, the edit unguarded
NotFound(query, request_id) ==
    /\ request_id \notin Keys(sessions)
    /\ \E edit_ok \in BOOLEAN :
         /\ buttons' = IF edit_ok THEN Edited(query) ELSE buttons
         /\ outcome' = IF edit_ok THEN "not_found" ELSE "raised"
    /\ writes' = NotFoundWrites(request_id)
    /\ notice' = {}
    /\ UNCHANGED <<sessions, backendVars>>

\* the session is marked unmatched again when the approval fails
AfterApproveError_reopened(d, r) == [d EXCEPT ![IndexOf(d, r)].matched = FALSE]

\* the `except` branch logs and edits the message; the session stays as it is
AfterApproveError(d, r) == d

\* `supabase_request("PATCH", profiles?user_id=eq.<u>, {"balance": new_balance})`
\* with new_balance = current_balance + total; None (nothing written) on failure
Credited(b, u, total, ok) == IF ok THEN [b EXCEPT ![u] = @ + total] ELSE b

\* `if telegram_id: try: send_message(...) except: log`: what the send may come
\* to (TRUE: delivered)
Deliveries(telegram_id) == IF telegram_id = NoTelegram THEN {FALSE} ELSE BOOLEAN

\* the messages 'Deposit Approved!' / 'Deposit Declined' that reached a chat
Told(telegram_id, decision, delivered) ==
    IF delivered THEN {[chat |-> telegram_id, decision |-> decision]} ELSE {}

\* supabase_request returns None on failure and its result is read only for
\* the profile; the user notification has its own guard.  An edit inside the
\* try block that fails is caught, logged, and followed by an unguarded edit.
\* `answers`: what a write request to the backend may come to (TRUE: accepted).
handle_approve(query, r, answers) ==
    \/ NotFound(query, r)
    \/ /\ r \in Keys(sessions)
       /\ LET session == DictGet(sessions, r)
              user_id == session.user_id
          IN \E bonus \in Bonus(session.amount), profiles_ok \in BOOLEAN,
                balance_ok \in answers, status_ok \in answers, insert_ok \in answers,
                delivered \in Deliveries(session.telegram_id),
                edit_ok \in BOOLEAN, error_edit_ok \in BOOLEAN :
               LET total == session.amount + bonus
                   done == (IF balance_ok
                              THEN {BalanceWrite(user_id, balance[user_id] + total)} ELSE {})
                            \cup (IF status_ok THEN {StatusWrite(r, "approved")} ELSE {})
                            \cup (IF insert_ok THEN {TransactionWrite(user_id, total)} ELSE {})
                   kept == [sessions EXCEPT ![IndexOf(sessions, r)].credited = @ \/ balance_ok]
               IN IF ~profiles_ok
                    THEN /\ writes' = {}
                         /\ notice' = {}
                         /\ UNCHANGED backendVars
                         /\ IF edit_ok
                              THEN /\ buttons' = Edited(query)
                                   /\ outcome' = "profile_missing"
                                   /\ UNCHANGED sessions
                              ELSE /\ buttons' = IF error_edit_ok THEN Edited(query) ELSE buttons
                                   /\ outcome' = IF error_edit_ok THEN "approve_error" ELSE "raised"
                                   /\ sessions' = AfterApproveError(sessions, r)
                  ELSE /\ writes' = done
                       /\ notice' = Told(session.telegram_id, "approved", delivered)
                       /\ balance' = Credited(balance, user_id, total, balance_ok)
                       /\ credits' = IF balance_ok THEN credits + 1 ELSE credits
                       /\ decided' = IF status_ok
                                       THEN [decided EXCEPT ![r] = @ \cup {"approved"}]
                                       ELSE decided
                       /\ IF edit_ok
                            THEN /\ buttons' = Edited(query)
                                 /\ sessions' = DictPop(sessions, r)
                                 /\ outcome' = "approved"
                            ELSE /\ buttons' = IF error_edit_ok THEN Edited(query) ELSE buttons
                                 /\ outcome' = IF error_edit_ok THEN "approve_error" ELSE "raised"
                                 /\ sessions' = AfterApproveError(kept, r)

\* handle_approve as the bot thread b runs it, in the two steps other threads
\* can come between: supabase_request blocks the thread's event loop, and so
\* does nothing to the event loop of the other bot thread.  First step: the
\* session is found and the profile read (`current_balance`).
approve_read(b, query) ==
    /\ botpc[b] = "polling"
    /\ approving[b] = NoApproval
    /\ \A other \in BotThreads : approving[other].query # query
    /\ buttons[query] > 0
    /\ credits < MaxCredits
    /\ LET r == KeyOf(Replace(CallbackData("approve", query), "approve_"))
       IN /\ r \in Keys(sessions)
          /\ \E bonus \in Bonus(DictGet(sessions, r).amount) :
               approving' = [approving EXCEPT ![b] =
                               [query |-> query, rid |-> r,
                                user_id |-> DictGet(sessions, r).user_id,
                                telegram_id |-> DictGet(sessions, r).telegram_id,
                                total |-> DictGet(sessions, r).amount + bonus,
                                current_balance |-> balance[DictGet(sessions, r).user_id]]]
    /\ outcome' = "none" /\ resp' = 0
    /\ Quiet
    /\ UNCHANGED <<now, ready, wsgi, botpc, app, loop, depositVars, connectVars, notifyVars,
                   gameVars, backendVars>>

\* Second step: `new_balance = current_balance + total` is written, then the
\* status, the transaction, the user's message, the admin message and the
\* session as in handle_approve.
approve_write(b, answers) ==
    /\ approving[b] # NoApproval
    /\ LET r == approving[b].rid
           query == approving[b].query
           user_id == approving[b].user_id
           total == approving[b].total
           new_balance == approving[b].current_balance + total
       IN \E balance_ok \in answers, status_ok \in answers, insert_ok \in answers,
             delivered \in Deliveries(approving[b].telegram_id),
             edit_ok \in BOOLEAN, error_edit_ok \in BOOLEAN :
            /\ writes' = (IF balance_ok THEN {BalanceWrite(user_id, new_balance)} ELSE {})
                          \cup (IF status_ok THEN {StatusWrite(r, "approved")} ELSE {})
                          \cup (IF insert_ok THEN {TransactionWrite(user_id, total)} ELSE {})
            /\ notice' = Told(approving[b].telegram_id, "approved", delivered)
            /\ balance' = IF balance_ok THEN [balance EXCEPT ![user_id] = new_balance]
                                        ELSE balance
            /\ credits' = IF balance_ok THEN credits + 1 ELSE credits
            /\ decided' = IF status_ok
                            THEN [decided EXCEPT ![r] = @ \cup {"approved"}]
                            ELSE decided
            /\ IF edit_ok
                 THEN /\ buttons' = Edited(query)
                      /\ sessions' = DictPop(sessions, r)
                      /\ outcome' = "approved"
                 ELSE /\ buttons' = IF error_edit_ok THEN Edited(query) ELSE buttons
                      /\ outcome' = IF error_edit_ok THEN "approve_error" ELSE "raised"
                      /\ sessions' = IF r \in Keys(sessions)
                                       THEN [sessions EXCEPT ![IndexOf(sessions, r)].credited =
                                                @ \/ balance_ok]
                                       ELSE sessions
    /\ approving' = [approving EXCEPT ![b] = NoApproval]
    /\ resp' = 0
    /\ submit' = NoSubmit
    /\ UNCHANGED <<now, ready, wsgi, botpc, app, loop, inbox, arrivals, pc, fetched, cycleAt,
                   everMatched, connectVars, notifyVars, gameVars>>

\* the status write's result is not read; the user notification has its own
\* guard; the edit is unguarded and comes before the pop
handle_decline(query, r, answers) ==
    \/ NotFound(query, r)
    \/ /\ r \in Keys(sessions)
       /\ \E status_ok \in answers, edit_ok \in BOOLEAN,
             delivered \in Deliveries(DictGet(sessions, r).telegram_id) :
            /\ writes' = IF status_ok THEN {StatusWrite(r, "declined")} ELSE {}
            /\ notice' = Told(DictGet(sessions, r).telegram_id, "declined", delivered)
            /\ decided' = IF status_ok
                            THEN [decided EXCEPT ![r] = @ \cup {"declined"}]
                            ELSE decided
            /\ UNCHANGED <<balance, credits>>
            /\ IF edit_ok
                 THEN /\ buttons' = Edited(query)
                      /\ sessions' = DictPop(sessions, r)
                      /\ outcome' = "declined"
                 ELSE /\ outcome' = "raised"
                      /\ UNCHANGED <<sessions, buttons>>

\* the admin presses a button of the approval request that was sent for
\* `query`; the request id is cut out of the button's callback data
handle_callback(kind, query, answers) ==
    /\ buttons[query] > 0
    /\ credits < MaxCredits
    /\ LET data == CallbackData(kind, query)
       IN \E answer_ok \in BOOLEAN :
            IF ~answer_ok
              THEN /\ outcome' = "answer_failed" /\ writes' = {} /\ notice' = {}
                   /\ UNCHANGED <<sessions, buttons, backendVars>>
            ELSE IF StartsWith(data, "approve_")
              THEN handle_approve(query, KeyOf(Replace(data, "approve_")), answers)
              ELSE handle_decline(query, KeyOf(Replace(data, "decline_")), answers)
    /\ resp' = 0
    /\ submit' = NoSubmit
    /\ UNCHANGED <<now, ready, inbox, arrivals, pc, fetched, cycleAt, everMatched,
                   connectVars, notifyVars, bootVars, gameVars>>

\* ------------------------------------------------------------ connect codes
\* the age computed with the operands swapped: nothing is ever old
cleanup_old_codes_swapped(p, t) ==
    [k \in {c \in DOMAIN p : ~(p[c].created_at - t > CONNECT_TTL)} |-> p[k]]

\* entries are deleted at half the age
cleanup_old_codes_half(p, t) ==
    [k \in {c \in DOMAIN p : ~(2 * (t - p[c].created_at) > CONNECT_TTL)} |-> p[k]]

\* cleanup_old_codes: entries created more than 600 s ago are deleted
cleanup_old_codes(p, t) ==
    [k \in {c \in DOMAIN p : ~(t - p[c].created_at > CONNECT_TTL)} |-> p[k]]

\* the entry is read but not removed
Without_kept(p, c) == p

\* _pending_connects.pop(code)
Without(p, c) == [k \in DOMAIN p \ {c} |-> p[k]]

\* JSON bodies of POST /check-id: none, or a user_id (possibly empty)
CheckIdBodies ==
    { [k \in K |-> u] : K \in SUBSET {"user_id"}, u \in WebUsers \cup {""} }

\* POST /check-id.  secrets.token_urlsafe(16) is a fresh code: 128 random bits,
\* modelled as the next unused number.
check_id(data) ==
    /\ issued < MaxCodes
    /\ IF ~wait_for_bot
         THEN resp' = 503 /\ UNCHANGED <<pending, issued>>
       ELSE IF DOMAIN data = {} \/ data["user_id"] = ""
         THEN resp' = 400 /\ UNCHANGED <<pending, issued>>
       ELSE /\ pending' = (issued + 1 :> [user_id |-> data["user_id"], created_at |-> now])
                              @@ cleanup_old_codes(pending, now)
            /\ issued' = issued + 1
            /\ resp' = 200
    /\ outcome' = "none"
    /\ UNCHANGED <<now, ready, telegram_of, used, depositVars, notifyVars,
                   bootVars, gameVars, backendVars>>
    /\ Quiet

\* the pending entry /start accepts for this code, after the cleanup
\* (`if code in _pending_connects`)
Acceptable(p, t, code) == code \in DOMAIN cleanup_old_codes(p, t)

\* /start sent by Telegram user `user` with context.args = args
start(user, args) ==
    /\ ready
    /\ IF args = <<>>
         THEN outcome' = "hello" /\ UNCHANGED <<pending, telegram_of, used>>
       ELSE LET code == args[1]
                cleaned == cleanup_old_codes(pending, now)
            IN IF Acceptable(pending, now, code)
                 THEN /\ pending' = Without(cleaned, code)
                      /\ used' = used \cup {code}
                      /\ \E saved \in BOOLEAN :
                           /\ telegram_of' =
                                IF saved
                                  THEN [telegram_of EXCEPT ![cleaned[code].user_id] = user]
                                  ELSE telegram_of
                           /\ outcome' = IF saved THEN "connected" ELSE "connect_failed"
                 ELSE /\ pending' = cleaned
                      /\ outcome' = "link_expired_or_used"
                      /\ UNCHANGED <<telegram_of, used>>
    /\ resp' = 0
    /\ UNCHANGED <<now, ready, issued, depositVars, notifyVars,
                   bootVars, gameVars, backendVars>>
    /\ Quiet

\* ------------------------------------------------- POST /notify_transaction
NotifyRequired == {"user_id", "type", "amount", "status"}

\* JSON bodies: every subset of the required keys; user_id may be falsy (0)
NotifyBodies ==
    { [k \in K |-> IF k = "user_id" THEN u ELSE 1] :
        K \in SUBSET NotifyRequired, u \in {0, 101} }

notify_transaction(data) ==
    /\ Len(threads) + notified < MaxNotify
    /\ IF ~wait_for_bot
         THEN resp' = 503 /\ UNCHANGED threads
       ELSE IF DOMAIN data = {}
         THEN resp' = 400 /\ UNCHANGED threads
       ELSE IF Missing(data, NotifyRequired) # {}
         THEN resp' = 400 /\ UNCHANGED threads
       ELSE /\ threads' = Append(threads, data["user_id"])
            /\ resp' = 200
    /\ outcome' = "none"
    /\ UNCHANGED <<now, ready, notified, admin_threads, depositVars, connectVars,
                   bootVars, gameVars, backendVars>>
    /\ Quiet

Remove(q, i) == SubSeq(q, 1, i - 1) \o SubSeq(q, i + 1, Len(q))

\* a notification thread runs send_transaction_notification: the coroutine is
\* handed to _state["loop"]; False without a user_id, False (logged) when the
\* submission or the Telegram call fails or times out
send_transaction_notification(i) ==
    /\ i \in 1..Len(threads)
    /\ threads' = Remove(threads, i)
    /\ submit' = loop
    /\ IF loop = 0
         THEN outcome' = "notify_failed" /\ UNCHANGED notified
       ELSE IF threads[i] = 0
         THEN outcome' = "no_user" /\ UNCHANGED notified
       ELSE \E ok \in BOOLEAN :
              /\ notified' = IF ok THEN notified + 1 ELSE notified
              /\ outcome' = IF ok THEN "notified" ELSE "notify_failed"
    /\ resp' = 0
    /\ writes' = {}
    /\ notice' = {}
    /\ UNCHANGED <<now, ready, admin_threads, depositVars, connectVars,
                   bootVars, gameVars, backendVars>>

\* ---------------------------------------------------------------- POST /admin
\* JSON bodies: none, or a message (possibly empty)
AdminBodies == { [k \in K |-> m] : K \in SUBSET {"message"}, m \in {"", "alert"} }

admin_alert(data) ==
    /\ admin_threads < MaxAdmin
    /\ IF ~wait_for_bot
         THEN resp' = 503 /\ UNCHANGED admin_threads
       ELSE IF DOMAIN data = {} \/ data["message"] = ""
         THEN resp' = 400 /\ UNCHANGED admin_threads
       ELSE /\ admin_threads' = admin_threads + 1
            /\ resp' = 200
    /\ outcome' = "none"
    /\ Quiet
    /\ UNCHANGED <<now, ready, threads, notified, depositVars, connectVars,
                   bootVars, gameVars, backendVars>>

\* an /admin thread runs send_admin_message
send_admin_message ==
    /\ admin_threads > 0
    /\ admin_threads' = admin_threads - 1
    /\ submit' = loop
    /\ \E ok \in BOOLEAN :
         outcome' = IF ok /\ loop # 0 THEN "admin_notified" ELSE "admin_failed"
    /\ resp' = 0
    /\ writes' = {}
    /\ notice' = {}
    /\ UNCHANGED <<now, ready, threads, notified, depositVars, connectVars,
                   bootVars, gameVars, backendVars>>

\* ------------------------------ POST /check_channels, POST /resolve_chat_id
\* JSON bodies: null, or an object with any subset of the keys, each value
\* truthy (1) or falsy (0)
BodiesOver(keys) ==
    { [k \in {"null"} |-> 0] } \cup
    UNION { [K -> {0, 1}] : K \in SUBSET keys }

Falsy(data, k) == k \notin DOMAIN data \/ data[k] = 0

\* A handler that submits one coroutine to the bot loop and waits 15 s for
\* it.  `data.get` on a null body raises outside the try: Flask answers 500.
\* Inside the try every exception (submission to None, timeout, a bad
\* argument) is answered 500.
LoopEndpoint(data, keys) ==
    /\ IF ~wait_for_bot
         THEN resp' = 503 /\ submit' = NoSubmit
       ELSE IF "null" \in DOMAIN data
         THEN resp' = 500 /\ submit' = NoSubmit
       ELSE IF \E k \in keys : Falsy(data, k)
         THEN resp' = 400 /\ submit' = NoSubmit
       ELSE \/ resp' = 500 /\ submit' \in {NoSubmit, loop}
            \/ loop # 0 /\ resp' = 200 /\ submit' = loop
    /\ outcome' = "none"
    /\ writes' = {}
    /\ notice' = {}
    /\ UNCHANGED <<now, ready, depositVars, connectVars, notifyVars,
                   bootVars, gameVars, backendVars>>

check_channels(data) == LoopEndpoint(data, {"user_id", "channels"})

resolve_chat_id(data) == LoopEndpoint(data, {"invite_link"})

\* ------------------------------------------------------------ game-round loop
\* the round manager starts once the bot is ready or after its 60 s wait
GameStart ==
    /\ gpc = "wait"
    /\ ready \/ now - StartTime >= READY_WAIT_GAME
    /\ gpc' = "create"
    /\ outcome' = "none" /\ resp' = 0
    /\ Quiet
    /\ UNCHANGED <<now, ready, current_round_id, resolved, depositVars, connectVars,
                   notifyVars, bootVars, backendVars>>

\* the round thread ends
AfterGameError_dead == "dead"

\* `except Exception` of the loop body logs and sleeps 3 s
AfterGameError == "pause"

\* the loop goes on to resolve_round with the round id it has
AfterCreateFailure_resolves == "betting"

\* `if not round_id: time.sleep(3); continue`
AfterCreateFailure == "pause"

\* create_new_round: a round id out of `ids`; or None when the backend call
\* fails; or an exception (a malformed URL, an answer without an id), caught
\* by the loop body's guard
game_round_create(ids) ==
    /\ gpc = "create"
    /\ \/ \E id \in ids :
            current_round_id' = id /\ gpc' = "betting" /\ outcome' = "round_created"
       \/ gpc' = AfterCreateFailure /\ outcome' = "round_failed" /\ UNCHANGED current_round_id
       \/ gpc' = AfterGameError /\ outcome' = "game_error" /\ UNCHANGED current_round_id
    /\ resp' = 0
    /\ Quiet
    /\ UNCHANGED <<now, ready, resolved, depositVars, connectVars, notifyVars, bootVars,
                   backendVars>>

\* the loop with every round under the same id: what the id is plays no part
\* in whether the loop goes on
GameCreate == game_round_create({1})

\* the loop with a new id for every round the backend creates
GameCreateFresh ==
    /\ current_round_id < MaxRounds
    /\ game_round_create({current_round_id + 1})

\* after time.sleep(10): resolve_round(round_id), whose backend answer is not
\* read; it returns, or raises into the loop body's guard
GameResolve ==
    /\ gpc = "betting"
    /\ resolved' = current_round_id
    /\ \/ gpc' = "pause" /\ outcome' = "round_resolved"
       \/ gpc' = AfterGameError /\ outcome' = "game_error"
    /\ resp' = 0
    /\ Quiet
    /\ UNCHANGED <<now, ready, current_round_id, depositVars, connectVars, notifyVars,
                   bootVars, backendVars>>

\* time.sleep(3) is over: the next pass of the loop
GameSleep ==
    /\ gpc = "pause"
    /\ gpc' = "create"
    /\ outcome' = "none" /\ resp' = 0
    /\ Quiet
    /\ UNCHANGED <<now, ready, current_round_id, resolved, depositVars, connectVars,
                   notifyVars, bootVars, backendVars>>

\* The state once main.py's module level has run: nothing published, the
\* bot, game-round and email threads started (one each), no session, no code.
Init ==
    /\ now = StartTime
    /\ ready = FALSE
    /\ sessions = <<>>
    /\ inbox = <<>>
    /\ arrivals = 0
    /\ pc = "wait"
    /\ fetched = <<>>
    /\ cycleAt = StartTime
    /\ buttons = [r \in AllIds |-> 0]
    /\ everMatched = {}
    /\ pending = <<>>
    /\ issued = 0
    /\ telegram_of = [u \in WebUsers |-> NoTelegram]
    /\ used = {}
    /\ threads = <<>>
    /\ notified = 0
    /\ wsgi = FALSE
    /\ botpc = [b \in BotThreads |-> IF b = 1 THEN "app" ELSE "off"]
    /\ app = 0
    /\ loop = 0
    /\ approving = [b \in BotThreads |-> NoApproval]
    /\ gpc = "wait"
    /\ current_round_id = 0
    /\ resolved = 0
    /\ admin_threads = 0
    /\ balance = [u \in Users |-> 500]
    /\ decided = [r \in AllIds |-> {}]
    /\ credits = 0
    /\ writes = {}
    /\ notice = {}
    /\ submit = NoSubmit
    /\ outcome = "none"
    /\ resp = 0

\* ---------------------------------------------- the deposit-session tracker
DepositIds == {"r1"}
DepositAmounts == {1000}
DepositEmailAmounts == {1000}

NextDeposit ==
    \/ Tick(MaxTicksDeposit)
    \/ run_bot_async
    \/ \E data \in DepositBodies(DepositIds, DepositAmounts) : start_deposit_session(data)
    \/ EmailArrives(DepositEmailAmounts, MaxEmailsDeposit)
    \/ WatcherStart
    \/ WatcherIterate
    \/ WatcherMatch
    \/ WatcherSleep
    \/ \E kind \in {"approve", "decline"}, r \in DepositIds :
         handle_callback(kind, r, {TRUE})

SpecDeposit == Init /\ [][NextDeposit]_vars

\* the send of an approval request that reaches the admin group
ApprovalDelivered == WatcherMatch /\ outcome' = "matched"

\* the liveness specification: one payment email at most and an admin who
\* declines, so that the fair behaviours stay few
MaxTicksLive == 4
MaxEmailsLive == 1

NextLive ==
    \/ Tick(MaxTicksLive)
    \/ run_bot_async
    \/ \E data \in DepositBodies(DepositIds, DepositAmounts) : start_deposit_session(data)
    \/ EmailArrives(DepositEmailAmounts, MaxEmailsLive)
    \/ WatcherStart
    \/ WatcherIterate
    \/ WatcherMatch
    \/ WatcherSleep
    \/ \E kind \in {"decline"}, r \in DepositIds :
         handle_callback(kind, r, {TRUE})

\* the watcher thread keeps running, and sends do not fail forever
LiveSpecDeposit ==
    /\ Init /\ [][NextLive]_vars
    /\ WF_vars(WatcherStart) /\ WF_vars(WatcherIterate) /\ WF_vars(WatcherMatch)
    /\ WF_vars(WatcherSleep)
    /\ SF_vars(ApprovalDelivered)

\* --------------------------------------------------- matching by amount
\* the clock stands still (check_emails_for_sessions does not read it) and
\* the admin declines
MaxEmailsMatch == 2

NextMatch ==
    \/ run_bot_async
    \/ \E data \in DepositBodies(RequestIds, SessionAmounts) : start_deposit_session(data)
    \/ EmailArrives(EmailAmounts, MaxEmailsMatch)
    \/ WatcherStart
    \/ WatcherIterate
    \/ WatcherMatch
    \/ WatcherSleep
    \/ \E kind \in {"decline"}, r \in RequestIds :
         handle_callback(kind, r, {TRUE})

SpecMatch == Init /\ [][NextMatch]_vars

\* ------------------------------------------------------- the connect handshake
StartArgs == {<<>>} \cup {<<c>> : c \in 1..MaxCodes}

NextConnect ==
    \/ Tick(MaxTicksConnect)
    \/ run_bot_async
    \/ \E data \in CheckIdBodies : check_id(data)
    \/ \E user \in TelegramUsers, args \in StartArgs : start(user, args)

SpecConnect == Init /\ [][NextConnect]_vars

\* ------------------------------------------------- transaction notifications
NextNotify ==
    \/ run_bot_async
    \/ \E data \in NotifyBodies : notify_transaction(data)
    \/ \E i \in 1..MaxNotify : send_transaction_notification(i)

SpecNotify == Init /\ [][NextNotify]_vars

\* ------------------------------------------------------ the background loops
MaxTicksLoops == 1
MaxEmailsLoops == 1
LoopEmailAmounts == {1000, BadAmount}

NextLoops ==
    \/ Tick(MaxTicksLoops)
    \/ run_bot_async
    \/ \E data \in DepositBodies(DepositIds, DepositAmounts) : start_deposit_session(data)
    \/ EmailArrives(LoopEmailAmounts, MaxEmailsLoops)
    \/ WatcherStart
    \/ WatcherIterate
    \/ WatcherMatch
    \/ WatcherSleep
    \/ GameStart
    \/ GameCreate
    \/ GameResolve
    \/ GameSleep

\* both loop threads keep being scheduled
LiveSpecLoops ==
    /\ Init /\ [][NextLoops]_vars
    /\ WF_vars(WatcherStart) /\ WF_vars(WatcherIterate) /\ WF_vars(WatcherMatch)
    /\ WF_vars(WatcherSleep)
    /\ WF_vars(GameStart) /\ WF_vars(GameCreate) /\ WF_vars(GameResolve)
    /\ WF_vars(GameSleep)

\* ------------------------------------------- start-up and cross-thread calls
\* the process as Gunicorn runs it: wsgi.py imported after main.py
MaxTicksBoot == 1
MaxEmailsBoot == 1
MaxNotifyBoot == 1

\* a well-formed body for user 101, and an empty one
BootNotifyBodies ==
    {data \in NotifyBodies : DOMAIN data = {} \/
                             (DOMAIN data = NotifyRequired /\ data["user_id"] = 101)}

NextBoot ==
    \/ start_bot
    \/ run_bot_async
    \/ Tick(MaxTicksBoot)
    \/ \E data \in DepositBodies(DepositIds, DepositAmounts) : start_deposit_session(data)
    \/ EmailArrives(DepositEmailAmounts, MaxEmailsBoot)
    \/ WatcherStart
    \/ WatcherIterate
    \/ WatcherMatch
    \/ WatcherSleep
    \/ \E data \in BootNotifyBodies :
          Len(threads) + notified < MaxNotifyBoot /\ notify_transaction(data)
    \/ \E i \in 1..MaxNotify : send_transaction_notification(i)

SpecBoot == Init /\ [][NextBoot]_vars

\* ------------------------------------------------------- the POST endpoints
NextEndpoints ==
    \/ run_bot_async
    \/ \E data \in BootNotifyBodies : notify_transaction(data)
    \/ \E i \in 1..MaxNotify : send_transaction_notification(i)
    \/ \E data \in AdminBodies : admin_alert(data)
    \/ send_admin_message
    \/ \E data \in DepositBodies(DepositIds, DepositAmounts) : start_deposit_session(data)
    \/ \E data \in CheckIdBodies : check_id(data)
    \/ \E data \in BodiesOver({"user_id", "channels"}) : check_channels(data)
    \/ \E data \in BodiesOver({"invite_link"}) : resolve_chat_id(data)

SpecEndpoints == Init /\ [][NextEndpoints]_vars

\* ------------------------------------------- approvals against the backend
\* write requests to the backend may fail; the clock stands still (the
\* handlers do not read it)
MaxEmailsApprove == 1
ApproveAmounts == {1000, 1051}

NextApprove ==
    \/ run_bot_async
    \/ \E data \in DepositBodies(DepositIds, ApproveAmounts) : start_deposit_session(data)
    \/ EmailArrives(ApproveAmounts, MaxEmailsApprove)
    \/ WatcherStart
    \/ WatcherIterate
    \/ WatcherMatch
    \/ WatcherSleep
    \/ \E kind \in {"approve", "decline"}, r \in DepositIds :
         handle_callback(kind, r, BOOLEAN)

SpecApprove == Init /\ [][NextApprove]_vars

\* ------------------------------------------- totals shown and totals credited
\* payments that differ from the requested amount by less than the tolerance
MaxEmailsTotals == 1
TotalsEmailAmounts == {1000, 1049}

NextTotals ==
    \/ run_bot_async
    \/ \E data \in DepositBodies(DepositIds, DepositAmounts) : start_deposit_session(data)
    \/ EmailArrives(TotalsEmailAmounts, MaxEmailsTotals)
    \/ WatcherStart
    \/ WatcherIterate
    \/ WatcherMatch
    \/ WatcherSleep
    \/ \E kind \in {"approve", "decline"}, r \in DepositIds :
         handle_callback(kind, r, {TRUE})

SpecTotals == Init /\ [][NextTotals]_vars

\* ------------------------------------------------ mail read before its session
\* a payment for an amount no session asks for yet; the IMAP server does not
\* fail, sessions do not expire (the clock stands still) and nobody presses a
\* button
MaxEmailsMail == 1
MailSessionAmounts == {1000, 2000}
MailEmailAmounts == {2000}

\* the loop body with an IMAP server that answers every time
WatcherIterateReliable == email_watcher_pass({TRUE})

NextMail ==
    \/ run_bot_async
    \/ \E data \in DepositBodies(DepositIds, MailSessionAmounts) : start_deposit_session(data)
    \/ EmailArrives(MailEmailAmounts, MaxEmailsMail)
    \/ WatcherStart
    \/ WatcherIterateReliable
    \/ WatcherMatch
    \/ WatcherSleep

\* the watcher thread keeps running
LiveSpecMail ==
    /\ Init /\ [][NextMail]_vars
    /\ WF_vars(WatcherStart) /\ WF_vars(WatcherIterateReliable) /\ WF_vars(WatcherMatch)
    /\ WF_vars(WatcherSleep)

\* ----------------------------------------- approvals in two bot threads
\* the process as Gunicorn runs it; well-formed requests for one user, a
\* backend and an IMAP server that answer every time
MaxEmailsRace == 2

RaceBodies ==
    {data \in DepositBodies(RequestIds, DepositAmounts) : DOMAIN data = DepositRequired}

NextRace ==
    \/ start_bot
    \/ run_bot_async
    \/ \E data \in RaceBodies : start_deposit_session(data)
    \/ EmailArrives(DepositEmailAmounts, MaxEmailsRace)
    \/ WatcherStart
    \/ WatcherIterateReliable
    \/ WatcherMatch
    \/ WatcherSleep
    \/ \E b \in BotThreads, r \in RequestIds : approve_read(b, r)
    \/ \E b \in BotThreads : approve_write(b, {TRUE})

SpecRace == Init /\ [][NextRace]_vars

\* ------------------------------------------- buttons that outlive sessions
\* well-formed requests that carry a telegram_id; an IMAP server and a
\* backend that answer every time
MaxTicksStale == 2
MaxEmailsStale == 2

StaleBodies ==
    WithTelegram({data \in DepositBodies(DepositIds, DepositAmounts) :
                     DOMAIN data = DepositRequired}, {101})
      \ DepositBodies(DepositIds, DepositAmounts)

NextStale ==
    \/ Tick(MaxTicksStale)
    \/ run_bot_async
    \/ \E data \in StaleBodies : start_deposit_session(data)
    \/ EmailArrives(DepositEmailAmounts, MaxEmailsStale)
    \/ WatcherStart
    \/ WatcherIterateReliable
    \/ WatcherMatch
    \/ WatcherSleep
    \/ \E kind \in {"approve", "decline"}, r \in DepositIds :
         handle_callback(kind, r, {TRUE})

SpecStale == Init /\ [][NextStale]_vars

\* ------------------------------------------------------ the game-round loop
MaxTicksRounds == 1

NextRounds ==
    \/ Tick(MaxTicksRounds)
    \/ run_bot_async
    \/ GameStart
    \/ GameCreateFresh
    \/ GameResolve
    \/ GameSleep

\* the round thread keeps being scheduled
LiveSpecRounds ==
    /\ Init /\ [][NextRounds]_vars
    /\ WF_vars(GameStart) /\ WF_vars(GameCreateFresh) /\ WF_vars(GameResolve)
    /\ WF_vars(GameSleep)

\* ------------------------------------------------ POST /start_deposit_session
\* bodies with any of the required keys; amounts numeric and not numeric
MaxTicksSessions == 2
SessionsAmounts == {1000, BadAmount}

NextSessions ==
    \/ Tick(MaxTicksSessions)
    \/ run_bot_async
    \/ \E data \in DepositBodies(RequestIds, SessionsAmounts) : start_deposit_session(data)

SpecSessions == Init /\ [][NextSessions]_vars

\* ------------------------------------------- request ids in callback data
\* request ids that are a string, a number, and a string with a button's
\* prefix in it; an IMAP server and a backend that answer every time
MaxEmailsCallbackData == 1
CallbackIds == {"r1", "n7", "approve_r1"}

CallbackDataBodies ==
    {data \in DepositBodies(CallbackIds, DepositAmounts) : DOMAIN data = DepositRequired}

NextCallbackData ==
    \/ run_bot_async
    \/ \E data \in CallbackDataBodies : start_deposit_session(data)
    \/ EmailArrives(DepositEmailAmounts, MaxEmailsCallbackData)
    \/ WatcherStart
    \/ WatcherIterateReliable
    \/ WatcherMatch
    \/ WatcherSleep
    \/ \E kind \in {"approve", "decline"}, query \in CallbackIds :
         handle_callback(kind, query, {TRUE})

SpecCallbackData == Init /\ [][NextCallbackData]_vars

\* ------------------------------------------------------------ the whole bot
Next == NextMatch \/ NextConnect \/ NextNotify

Spec == Init /\ [][Next]_vars

\* ===================================================================== claims
Matched(d, r) == r \in Keys(d) /\ DictGet(d, r).matched

Unmatched(d, r) == r \in Keys(d) /\ ~DictGet(d, r).matched

\* this step marks the session stored under r matched
MarkedMatched(r) == Unmatched(sessions, r) /\ Matched(sessions', r)

\* this step is a successful POST /start_deposit_session for r
Registers(r) ==
    \E data \in DepositBodies({r}, SessionAmounts) :
        DOMAIN data = DepositRequired /\ start_deposit_session(data)

ExpiryTimes == {StartTime + k * TickSeconds + SESSION_TTL : k \in 0..(MaxTicksLive + 1)}

Has(r, x) == r \in Keys(sessions) /\ DictGet(sessions, r).expires_at = x

\* C1 as stated: under one request id a session is marked matched at most
\* once, whatever start_deposit_session calls, polling cycles, sweeps and
\* callbacks come in between.
C1_OncePerIdentifier ==
    [][\A r \in RequestIds : MarkedMatched(r) => r \notin everMatched]_vars

\* C1 amended: a session record is marked matched at most once: once matched,
\* the session under a request id stays matched for as long as it is in the
\* map; only start_deposit_session, storing a new record under the id, puts
\* an unmatched session there again.
C1_OncePerRecord ==
    [][\A r \in RequestIds :
         (Matched(sessions, r) /\ Unmatched(sessions', r)) => Registers(r)]_vars

\* a request id was matched before and holds a new, unmatched session
C1_Witness == \E r \in RequestIds : r \in everMatched /\ Unmatched(sessions, r)

\* C2 as stated: a session past its expires_at is eventually gone from
\* _deposit_sessions while the watcher keeps iterating.
C2_ExpiredEventuallyAbsent ==
    \A r \in RequestIds, x \in ExpiryTimes : (Has(r, x) /\ now > x) ~> ~Has(r, x)

\* C2 amended: an unmatched session past its expires_at does not stay so:
\* the watcher's next sweep removes it, unless a cycle already past its sweep
\* marks it matched first; matched sessions are exempt from the sweep.
C2_ExpiredUnmatchedSwept ==
    \A r \in RequestIds, x \in ExpiryTimes :
        (Has(r, x) /\ now > x /\ Unmatched(sessions, r))
            ~> ~(Has(r, x) /\ Unmatched(sessions, r))

\* the watcher has just swept an expired session
C2_Witness == outcome = "expired" /\ sessions = <<>> /\ everMatched = {}

\* C3: no session is marked matched later than its expires_at.
C3_MatchedWithinTTL ==
    [][\A r \in RequestIds :
         MarkedMatched(r) => now <= DictGet(sessions, r).expires_at]_vars

\* C6: a session is marked matched only by a polling cycle, only if it was
\* unmatched and its amount is less than 0.5 rupee from the email's; the one
\* marked is the first such session in map order, so an email marks at most
\* one; an email with no amount or amount zero marks none.
C6_MatchByAmount ==
    [][/\ \A r \in RequestIds :
            MarkedMatched(r) =>
              /\ pc = "match"
              /\ LET e == Head(fetched)
                     i == IndexOf(sessions, r)
                 IN /\ e.amount # NoAmount /\ e.amount # 0
                    /\ sessions[i].amount - e.amount < 50
                    /\ e.amount - sessions[i].amount < 50
                    /\ \A j \in 1..(i - 1) :
                         \/ sessions[j].matched
                         \/ sessions[j].amount - e.amount >= 50
                         \/ e.amount - sessions[j].amount >= 50
       /\ \A r1 \in RequestIds, r2 \in RequestIds :
            MarkedMatched(r1) /\ MarkedMatched(r2) => r1 = r2]_vars

\* an email of 10.49 has just been matched to the first session (10.50); the
\* second (10.00), as close to it, stays unmatched
C6_Witness ==
    /\ outcome \in {"matched", "send_failed"}
    /\ Len(sessions) = 2
    /\ sessions[1].matched /\ sessions[1].amount = 1050
    /\ ~sessions[2].matched /\ sessions[2].amount = 1000

\* C7: a session is matched only against an email that arrived within the
\* 6 minutes before the polling cycle that fetched it.
C7_OnlyRecentEmails ==
    [][\A r \in RequestIds :
         MarkedMatched(r) => cycleAt - Head(fetched).arrived <= 6 * 60]_vars

\* C8: a matched session whose approval request was not delivered gets it
\* delivered by a later polling cycle.
C8_FailedSendRetried ==
    \A r \in RequestIds :
        (Matched(sessions, r) /\ ~DictGet(sessions, r).sent)
            ~> ~(Matched(sessions, r) /\ ~DictGet(sessions, r).sent)

\* C9: once the bot is ready, a body holding user_id, type, amount and status
\* gets 200 and one notification thread is started, whatever the delivery
\* does later; any other body gets 400 and no thread is started.
C9_NotifyResponse ==
    [][\A data \in NotifyBodies :
         (ready /\ notify_transaction(data)) =>
            IF {"user_id", "type", "amount", "status"} \subseteq DOMAIN data
              THEN resp' = 200 /\ Len(threads') = Len(threads) + 1
              ELSE resp' = 400 /\ threads' = threads]_vars

\* a request was answered 200 and its Telegram delivery has just failed
C9_Witness == outcome = "notify_failed" /\ notified = 0 /\ threads = <<>>

\* C10: no failure of a Telegram or backend call escapes handle_approve or
\* handle_decline as an exception.
C10_CallbacksGuarded == outcome # "raised"

Codes == 1..MaxCodes

Rejected == outcome' = "link_expired_or_used" /\ telegram_of' = telegram_of /\ used' = used

\* C4: a /start carrying a code whose pending entry is more than 600 s old
\* replies that the link has expired or been used, writes no telegram id and
\* leaves no entry for the code in _pending_connects.
C4_ExpiredCodeRejected ==
    [][\A code \in Codes, user \in TelegramUsers :
         (/\ code \in DOMAIN pending
          /\ now - pending[code].created_at > 600
          /\ start(user, <<code>>))
         => Rejected /\ code \notin DOMAIN pending']_vars

\* every issued code expired unused and the last /start was turned down
C4_Witness ==
    /\ issued = MaxCodes /\ used = {} /\ pending = <<>>
    /\ outcome = "link_expired_or_used"

\* C5: a code a /start has accepted is rejected by every later /start, and a
\* /start accepts a code only if none has accepted it before, whatever the
\* save to the backend returned.
C5_CodeAcceptedOnce ==
    [][\A code \in Codes, user \in TelegramUsers :
         /\ (code \in used /\ start(user, <<code>>)) => Rejected
         /\ (start(user, <<code>>) /\ outcome' \in {"connected", "connect_failed"})
              => code \notin used /\ code \in used']_vars

\* every code was accepted once, every save failed, and a further /start
\* was turned down
C5_Witness ==
    /\ used = Codes
    /\ \A u \in WebUsers : telegram_of[u] = NoTelegram
    /\ outcome = "link_expired_or_used"

\* C11: the email watcher and the game-round loop survive every failure of
\* an iteration: once a loop has started, it starts an iteration again and
\* again, whatever the backend, IMAP and Telegram calls of earlier
\* iterations came to.
C11_LoopsSurvive ==
    /\ [](pc = "wait") \/ []<><<WatcherIterate>>_vars
    /\ [](gpc = "wait") \/ []<><<GameCreate>>_vars

\* an iteration of the watcher has just ended in its exception guard, one of
\* the round loop has failed before
C11_Witness == outcome = "watcher_error" /\ pc = "sleep" /\ gpc = "create" /\ ready

\* C12: whenever the readiness flag is set, _state["app"] and _state["loop"]
\* are set; no step hands a coroutine to a loop reference that is None; and
\* _deposit_sessions is non-empty only once the flag is set.
C12_Readiness ==
    /\ ready => (app # 0 /\ loop # 0)
    /\ submit # 0
    /\ sessions # <<>> => ready
    /\ threads # <<>> => ready

\* the watcher has just handed an approval request to the bot loop
C12_Witness ==
    ready /\ sessions # <<>> /\ outcome = "matched" /\ submit = loop /\ loop # 0

\* bot threads that have been started
BotThreadsStarted == {b \in BotThreads : botpc[b] # "off"}

\* C13: at most one bot polling thread is started in the process (the model
\* has one game-round thread and one email watcher thread by construction).
C13_OneBotThread == Cardinality(BotThreadsStarted) <= 1

\* a request to one of the six POST endpoints is answered
PostRequest ==
    \/ \E data \in BootNotifyBodies : notify_transaction(data)
    \/ \E data \in AdminBodies : admin_alert(data)
    \/ \E data \in DepositBodies(DepositIds, DepositAmounts) : start_deposit_session(data)
    \/ \E data \in CheckIdBodies : check_id(data)
    \/ \E data \in BodiesOver({"user_id", "channels"}) : check_channels(data)
    \/ \E data \in BodiesOver({"invite_link"}) : resolve_chat_id(data)

\* C14: a POST request answered while the readiness flag is not set gets 503,
\* leaves _pending_connects and _deposit_sessions as they were, starts no
\* thread and hands nothing to the bot loop.
C14_NotReady503 ==
    [][(PostRequest /\ ~ready) =>
          /\ resp' = 503
          /\ pending' = pending /\ sessions' = sessions
          /\ threads' = threads /\ admin_threads' = admin_threads
          /\ submit' = NoSubmit]_vars

\* a request was refused while the bot had published its app but not yet
\* set the flag
C14_Witness == resp = 503 /\ ~ready /\ app # 0

\* /start from Telegram user `user` accepts connect code `code`
Accepts(user, code) ==
    start(user, <<code>>) /\ outcome' \in {"connected", "connect_failed"}

\* what an accepted /start saves: the sender's Telegram id, on the profile
\* named in the pending entry check_id stored under the code
SavesLink(user, code) ==
    /\ outcome' = "connected" =>
           telegram_of' = [telegram_of EXCEPT ![pending[code].user_id] = user]
    /\ outcome' = "connect_failed" => telegram_of' = telegram_of

IsOld(entry, t) == t - entry.created_at > CONNECT_TTL

\* C15 as stated: an accepted /start saves the sender's id on the issuing
\* user's profile and leaves every other pending code as it was.
C15_LinkIntegrity ==
    [][\A user \in TelegramUsers, code \in Codes :
         Accepts(user, code) =>
           /\ SavesLink(user, code)
           /\ \A c \in DOMAIN pending \ {code} :
                c \in DOMAIN pending' /\ pending'[c] = pending[c]]_vars

\* C15 amended: an accepted /start saves the sender's id on the issuing
\* user's profile; of the other pending codes, those not older than 600 s
\* stay as they were and the older ones are deleted by the cleanup /start
\* runs first.
C15_LinkIntegrityUnexpired ==
    [][\A user \in TelegramUsers, code \in Codes :
         Accepts(user, code) =>
           /\ SavesLink(user, code)
           /\ DOMAIN pending' \subseteq DOMAIN pending \ {code}
           /\ \A c \in DOMAIN pending \ {code} :
                IF IsOld(pending[c], now)
                  THEN c \notin DOMAIN pending'
                  ELSE c \in DOMAIN pending' /\ pending'[c] = pending[c]]_vars

\* a code was accepted and saved; the other code issued was neither used nor
\* is it pending any more
C15_Witness ==
    outcome = "connected" /\ issued = MaxCodes /\ Cardinality(used) = 1 /\ DOMAIN pending = {}

\* the Approve button of request r is handled and the backend accepts the
\* balance update
CreditedNow(r) == credits' = credits + 1 /\ handle_callback("approve", r, BOOLEAN)

\* C16: handle_approve increases the user's balance at most once per deposit
\* session, whatever callbacks arrive and whatever Telegram calls fail.
C16_CreditedOnce ==
    [][\A r \in DepositIds : CreditedNow(r) => ~DictGet(sessions, r).credited]_vars

\* C17: a request never gets both an 'approved' and a 'declined' status
\* write, and a request whose 'declined' write the backend has received is
\* never credited.
C17_OneDecision ==
    [][\A r \in DepositIds :
         /\ decided'[r] # {"approved", "declined"}
         /\ CreditedNow(r) => "declined" \notin decided[r]]_vars

\* the Approve button of request r is handled and the approval is reported:
\* the status write or the transaction insert is accepted, or the admin is
\* shown 'Approved' and the session is removed
ReportsApproval(r) ==
    /\ \/ StatusWrite(r, "approved") \in writes'
       \/ \E w \in writes' : w.table = "transactions"
       \/ outcome' = "approved"
    /\ handle_callback("approve", r, BOOLEAN)

\* C18: handle_approve reports an approval only when the backend accepted
\* the balance update before.
C18_ReportedOnlyIfCredited ==
    [][\A r \in DepositIds : ReportsApproval(r) => credits' = credits + 1]_vars

\* an approve in which the profile read, the three writes and the edit of the
\* admin message all succeed
SuccessfulApprove(r) ==
    /\ outcome' = "approved"
    /\ Cardinality(writes') = 3
    /\ handle_callback("approve", r, BOOLEAN)

\* b is 1% of the amount (in paise) rounded to the nearest paisa
IsBonus(b, amount) == 2 * Abs(100 * b - amount) <= 100

\* C19: a successful approve of a session (user, amount) writes the balance
\* read + amount + bonus, bonus being 1% of the amount rounded to 2 decimals,
\* sets the request's status to approved, inserts one completed addfund
\* transaction of amount + bonus and removes the session.
C19_ApproveWrites ==
    [][\A r \in DepositIds :
         SuccessfulApprove(r) =>
           LET session == DictGet(sessions, r)
               u == session.user_id
           IN \E b \in (session.amount \div 100)..(session.amount \div 100 + 1) :
                /\ IsBonus(b, session.amount)
                /\ writes' = {BalanceWrite(u, balance[u] + session.amount + b),
                              StatusWrite(r, "approved"),
                              TransactionWrite(u, session.amount + b)}
                /\ balance' = [balance EXCEPT ![u] = balance[u] + session.amount + b]
                /\ "approved" \in decided'[r]
                /\ r \notin Keys(sessions')]_vars

\* a session of 10.51 has just been approved with a bonus of 0.11
C19_Witness ==
    /\ outcome = "approved"
    /\ sessions = <<>>
    /\ TransactionWrite("u1", 1062) \in writes
    /\ balance["u1"] = 1562

\* C20: when handle_approve updates a balance for a request, the session
\* stored under the request id is marked matched.
C20_CreditOnlyMatched ==
    [][\A r \in DepositIds : CreditedNow(r) => Matched(sessions, r)]_vars

\* C21: when an approve credits a matched session whose approval request was
\* delivered, the amount added to the balance is the 'Total to credit' that
\* request showed.
C21_ShownIsCredited ==
    [][\A r \in RequestIds :
         (/\ Matched(sessions, r)
          /\ DictGet(sessions, r).sent
          /\ credits' = credits + 1
          /\ handle_callback("approve", r, BOOLEAN))
         => balance'[DictGet(sessions, r).user_id]
              - balance[DictGet(sessions, r).user_id] = DictGet(sessions, r).shown]_vars

\* payment mail has arrived, none of it has been matched to a session, and
\* the session stored under r is unmatched and asks for the amount of such a
\* payment
AwaitsArrivedMail(r) ==
    /\ arrivals > 0
    /\ everMatched = {}
    /\ Unmatched(sessions, r)
    /\ \E a \in MailEmailAmounts : WithinTolerance(DictGet(sessions, r).amount, a)

\* C22: no payment mail is lost: a mail that no polling cycle has matched
\* stays available, so a session that asks for its amount, whether started
\* before or after the cycles that fetched the mail, is eventually matched
\* (the clock stands still: the mail stays inside the search window and the
\* session does not expire).
C22_NoEmailLost ==
    \A r \in RequestIds : AwaitsArrivedMail(r) ~> ~AwaitsArrivedMail(r)

\* C23: no balance update is lost between approvals: every approval whose
\* balance write the backend accepts leaves the balance at its value before
\* the write plus the approval's total, so that two successful approvals of
\* the same user, in whatever order their steps run, end at the initial
\* balance plus both totals.
C23_NoLostUpdate ==
    [][\A b \in BotThreads :
         (/\ approving[b] # NoApproval
          /\ credits' = credits + 1
          /\ approve_write(b, {TRUE}))
         => balance'[approving[b].user_id]
              = balance[approving[b].user_id] + approving[b].total]_vars

\* the request id handle_callback passes to the handler for this button
RequestIdOf(kind, query) ==
    KeyOf(Replace(CallbackData(kind, query), IF kind = "approve" THEN "approve_" ELSE "decline_"))

\* this step is handle_decline finding the session of the pressed button
Declines(query) ==
    /\ RequestIdOf("decline", query) \in Keys(sessions)
    /\ outcome' # "answer_failed"
    /\ handle_callback("decline", query, BOOLEAN)

\* C24: handle_decline leaves every balance unchanged and inserts no
\* transaction; its only backend write sets the request's status to
\* 'declined'; and once it has run the session is no longer in
\* _deposit_sessions.
C24_DeclineWrites ==
    [][\A query \in RequestIds :
         Declines(query)
         => /\ balance' = balance
            /\ writes' \subseteq {StatusWrite(RequestIdOf("decline", query), "declined")}
            /\ RequestIdOf("decline", query) \notin Keys(sessions')]_vars

\* this step is a button press whose request id has no entry in
\* _deposit_sessions
PressesStale(kind, query) ==
    /\ RequestIdOf(kind, query) \notin Keys(sessions)
    /\ outcome' # "answer_failed"
    /\ handle_callback(kind, query, BOOLEAN)

\* C25: an approve or decline callback for a request id with no entry in
\* _deposit_sessions writes nothing to the backend, tells no user, leaves
\* _deposit_sessions as it is, and does nothing but replace the admin message
\* (or fail to).
C25_StaleButton ==
    [][\A kind \in {"approve", "decline"}, query \in RequestIds :
         PressesStale(kind, query)
         => /\ writes' = {}
            /\ notice' = {}
            /\ sessions' = sessions
            /\ UNCHANGED <<balance, decided, credits>>
            /\ \/ outcome' = "not_found" /\ buttons' = [buttons EXCEPT ![query] = @ - 1]
               \/ outcome' = "raised" /\ buttons' = buttons]_vars

\* the button of a request that was decided before has just been pressed
C25_Witness ==
    /\ outcome = "not_found"
    /\ \E r \in RequestIds : decided[r] # {} /\ r \notin Keys(sessions)

\* this step is a pass of the loop whose create_new_round gave no round
FailedCreation == gpc = "create" /\ gpc' # "create" /\ outcome' # "round_created"

\* C26: the round loop alternates create and resolve.  Round ids are 1, 2,
\* ... in the order of creation: resolve_round has been called for every
\* round but the one being played, it is called for the created round and
\* for it once, no round is created while the previous one awaits its call,
\* a created round does get its call, and a failed creation resolves
\* nothing and leads to another creation attempt.
C26_CreateResolveAlternate ==
    /\ [](resolved \in {current_round_id, current_round_id - 1})
    /\ [](resolved # current_round_id <=> gpc = "betting")
    /\ [][resolved' # resolved => resolved' = current_round_id /\ resolved' = resolved + 1]_vars
    /\ [][current_round_id' # current_round_id
            => resolved = current_round_id /\ current_round_id' = current_round_id + 1]_vars
    /\ \A id \in 1..MaxRounds : (current_round_id = id) ~> (resolved = id)
    /\ [][FailedCreation => UNCHANGED <<current_round_id, resolved>> /\ gpc' = "pause"]_vars
    /\ [][gpc = "pause" /\ gpc' # gpc => gpc' = "create"]_vars

\* a creation has just failed after a round that was created and resolved
C26_Witness == outcome = "round_failed" /\ current_round_id = 1 /\ resolved = 1

\* the stored session under key r with the history fields left out
Stored(d, r) ==
    [f \in {"user_id", "amount", "expires_at", "matched"} |-> DictGet(d, r)[f]]

\* C27: with the bot ready, POST /start_deposit_session answers 400 and
\* leaves _deposit_sessions unchanged when the body is empty or lacks one of
\* request_id, user_id, xid, amount; a request with all four and a numeric
\* amount answers 200 and stores one session under request_id, unmatched,
\* expiring 300 s from now, every other session unchanged; and
\* _deposit_sessions changes only when the answer is 200.
C27_StartDepositSession ==
    [][\A data \in DepositBodies(RequestIds, SessionsAmounts) :
         start_deposit_session(data)
         => /\ sessions' # sessions => resp' = 200
            /\ (ready /\ DOMAIN data # DepositRequired)
                 => (resp' = 400 /\ sessions' = sessions)
            /\ (ready /\ DOMAIN data = DepositRequired /\ data["amount"] # BadAmount)
                 => /\ resp' = 200
                    /\ Keys(sessions') = Keys(sessions) \cup {data["request_id"]}
                    /\ Len(sessions') = Cardinality(Keys(sessions'))
                    /\ Stored(sessions', data["request_id"])
                         = [user_id |-> data["user_id"], amount |-> data["amount"],
                            expires_at |-> now + 300, matched |-> FALSE]
                    /\ \A r \in Keys(sessions) \ {data["request_id"]} :
                         DictGet(sessions', r) = DictGet(sessions, r)]_vars

\* a session has just been stored beside another one, after the clock moved
C27_Witness ==
    /\ resp = 200
    /\ Keys(sessions) = RequestIds
    /\ \E r \in RequestIds : DictGet(sessions, r).expires_at = now + SESSION_TTL /\ now > StartTime

\* C28: when a button of the approval request sent for a stored session is
\* pressed, the request id handle_callback cuts out of the button's data is
\* the key the session is stored under.
C28_CallbackDataRoundTrip ==
    [][\A kind \in {"approve", "decline"}, query \in AllIds :
         (/\ query \in Keys(sessions)
          /\ outcome' # "answer_failed"
          /\ handle_callback(kind, query, BOOLEAN))
         => RequestIdOf(kind, query) = query]_vars
====
